---- MODULE Spec2Model ----
(***************************************************************************)
(* Model of SynchroGenerator (src/streamlit_app.py): the network build of  *)
(* generate_network, the corridor merge of connect_intersections, the      *)
(* turning-movement table of generate_lanes_section, the street names of   *)
(* parse_intersection_name, the Nodes / Links / Lanes rows written by      *)
(* generate_file_content, and the lists main keeps in st.session_state.    *)
(*                                                                         *)
(* Python objects are shared by reference: an approach node dict sits both *)
(* in all_nodes and in its intersection's 'approaches' list.  The model    *)
(* keeps the dicts in a heap, node, indexed by node id; all_nodes and the  *)
(* approaches lists hold ids.  Latitudes and longitudes are integers in    *)
(* units of 1/364000 degree, so that lat_feet is 1 per unit.  A Python     *)
(* string is the sequence of its tokens (words, separator phrases, commas  *)
(* and blanks).                                                            *)
(***************************************************************************)
EXTENDS Integers, Sequences, FiniteSets, TLC

\* ------------------------------------------------------------------ bounds
\* generate_network as main calls it: entries of intersections_data, and
\* entries of st.session_state.connections
MaxSpecs == 3
MaxConns == 2
\* generate_network called with any list of index pairs: entries of
\* intersections_data, and entries of connections
AnySpecs == 2
AnyConns == 2
\* the form of main: entries of st.session_state.intersections_data, and
\* entries of st.session_state.connections
MaxPending == 3
MaxStored == 3

\* --------------------------------------------------------------- constants
\* Python's None, as a value no latitude, longitude or node id takes
None == -2147483647
standard_approach_distance == 1500
\* cos(radians(origin_lat)) for the latitude band of the inputs (60 degrees
\* north), as the fraction CosNum / CosDen
CosNum == 1
CosDen == 2
\* 60 degrees in units of 1/364000 degree
BaseLat == 21840000
BaseLon == 4000000

\* dict order of `directions` in generate_network
Directions == <<"NB", "SB", "EB", "WB">>
DirSet == {"NB", "SB", "EB", "WB"}

\* `opposite` table of generate_network and generate_lanes_section
Opposite(d) ==
    CASE d = "NB" -> "SB" [] d = "SB" -> "NB" [] d = "EB" -> "WB" [] d = "WB" -> "EB"

\* mutant of LeftDir: the right-turn table in its place
LeftDirAsRight(d) ==
    CASE d = "NB" -> "EB" [] d = "SB" -> "WB" [] d = "EB" -> "SB" [] d = "WB" -> "NB"

\* `left_dir` table of generate_lanes_section
LeftDir(d) ==
    CASE d = "NB" -> "WB" [] d = "SB" -> "EB" [] d = "EB" -> "NB" [] d = "WB" -> "SB"

\* `right_dir` table of generate_lanes_section
RightDir(d) ==
    CASE d = "NB" -> "EB" [] d = "SB" -> "WB" [] d = "EB" -> "SB" [] d = "WB" -> "NB"

\* the (dx, dy) offsets of the `directions` dict
DirDx(d) ==
    CASE d = "EB" -> standard_approach_distance
      [] d = "WB" -> -standard_approach_distance
      [] OTHER -> 0

DirDy(d) ==
    CASE d = "NB" -> standard_approach_distance
      [] d = "SB" -> -standard_approach_distance
      [] OTHER -> 0

\* ------------------------------------------------------------------ inputs
\* int_data['lanes'], ['speed'], ['twltl'] of one entry of intersections_data:
\* the form's defaults, and a spec whose four directions all differ
DefaultConfig ==
    [lanes |-> [NB |-> 2, SB |-> 2, EB |-> 2, WB |-> 2],
     speed |-> [NB |-> 30, SB |-> 30, EB |-> 30, WB |-> 30],
     twltl |-> [NB |-> 0, SB |-> 0, EB |-> 0, WB |-> 0]]

\* mutant of MixedConfig: a speed of 0 on every approach
MixedConfigStopped ==
    [lanes |-> [NB |-> 1, SB |-> 3, EB |-> 4, WB |-> 6],
     speed |-> [NB |-> 0, SB |-> 0, EB |-> 0, WB |-> 0],
     twltl |-> [NB |-> 1, SB |-> 0, EB |-> 1, WB |-> 0]]

MixedConfig ==
    [lanes |-> [NB |-> 1, SB |-> 3, EB |-> 4, WB |-> 6],
     speed |-> [NB |-> 15, SB |-> 25, EB |-> 45, WB |-> 70],
     twltl |-> [NB |-> 1, SB |-> 0, EB |-> 1, WB |-> 0]]

\* (None, None): the answer of geocode_intersection on a miss
GeoMiss == [lat |-> None, lon |-> None]

\* the specs of intersections along one east-west street: the spec's name,
\* the (lat, lon) geocode_intersection answers for it, and the spec's
\* settings.  Relative to the first, the others lie 2999 ft and 1352 ft east;
\* the last is a geocoding miss.  The second name has no separator phrase,
\* the third has one in capitals.
StreetInputs ==
    { [name |-> <<"Main St", " and ", "1st Ave", ",", " ", "City">>,
       geo |-> [lat |-> BaseLat, lon |-> BaseLon],        cfg |-> DefaultConfig],
      [name |-> <<"Downtown Plaza", ",", " ", "City">>,
       geo |-> [lat |-> BaseLat, lon |-> BaseLon + 5998], cfg |-> MixedConfig],
      [name |-> <<"Main St", " AND ", "3rd Ave">>,
       geo |-> [lat |-> BaseLat, lon |-> BaseLon + 2705], cfg |-> DefaultConfig],
      [name |-> <<"Nowhere">>,
       geo |-> GeoMiss,          cfg |-> DefaultConfig] }

\* the same, and a spec 1352 ft east and 1352 ft north of the first
SpecInputs ==
    StreetInputs \cup
    { [name |-> <<"Oak St", ",", " ", "Town", " @ ", "Elm St">>,
       geo |-> [lat |-> BaseLat + 1352, lon |-> BaseLon + 2705], cfg |-> MixedConfig] }

\* mutant of Falsy: no coordinate counts as missing
FalsyNever(v) == FALSE

\* Python truthiness of a geocoded coordinate: `not lat`
Falsy(v) == v = None \/ v = 0

\* ----------------------------------------------------------------- helpers
\* int(): truncation toward zero
TruncDiv(a, b) == IF a >= 0 THEN a \div b ELSE -((-a) \div b)

Abs(a) == IF a >= 0 THEN a ELSE -a

RECURSIVE SqrtSearch(_, _, _)
SqrtSearch(n, lo, hi) ==
    IF lo >= hi THEN lo
    ELSE LET mid == (lo + hi + 1) \div 2
         IN  IF mid * mid <= n THEN SqrtSearch(n, mid, hi)
             ELSE SqrtSearch(n, lo, mid - 1)

\* int(math.sqrt(n)) for 0 <= n < 2^31
ISqrt(n) == SqrtSearch(n, 0, 46340)

\* next((e for e in s if test(e)), None), given the set S of the positions of
\* s that pass the test: the first of them, 0 if there is none
First(S) == IF S = {} THEN 0 ELSE CHOOSE k \in S : \A m \in S : k <= m

\* the last position in S, 0 if there is none
Last(S) == IF S = {} THEN 0 ELSE CHOOSE k \in S : \A m \in S : k >= m

\* sorted(S), for a set of node ids (positive integers)
Sorted(S) ==
    IF S = {} THEN <<>>
    ELSE SelectSeq([k \in 1..(CHOOSE e \in S : \A f \in S : f <= e) |-> k],
                   LAMBDA k : k \in S)

\* ----------------------------------------------------------- Python strings
\* a str value, and None where a str is expected
NoneStr == [is_none |-> TRUE, text |-> <<>>]

Str(t) == [is_none |-> FALSE, text |-> t]

\* f"{v}": None is written as the word None
Format(v) == IF v.is_none THEN <<"None">> ELSE v.text

\* str.lower() of one token
Lower(t) ==
    CASE t = " AND " -> " and "
      [] t = " And " -> " and "
      [] t = " AT "  -> " at "
      [] t = " At "  -> " at "
      [] t = "Main St" -> "main st"
      [] t = "1st Ave" -> "1st ave"
      [] t = "3rd Ave" -> "3rd ave"
      [] t = "Downtown Plaza" -> "downtown plaza"
      [] t = "City" -> "city"
      [] t = "Nowhere" -> "nowhere"
      [] t = "Oak St" -> "oak st"
      [] t = "Elm St" -> "elm st"
      [] t = "Town" -> "town"
      [] OTHER -> t

\* sep in s.lower()
InLower(sep, s) == \E k \in 1..Len(s) : Lower(s[k]) = sep

\* s.split(sep, 1)
SplitOnce(s, sep) ==
    LET k == First({j \in 1..Len(s) : s[j] = sep})
    IN  IF k = 0 THEN <<s>>
        ELSE <<SubSeq(s, 1, k - 1), SubSeq(s, k + 1, Len(s))>>

\* s.strip()
RECURSIVE Strip(_)
Strip(s) ==
    IF s = <<>> THEN s
    ELSE IF Head(s) = " " THEN Strip(Tail(s))
    ELSE IF s[Len(s)] = " " THEN Strip(SubSeq(s, 1, Len(s) - 1))
    ELSE s

\* s.split(',')
RECURSIVE SplitCommas(_)
SplitCommas(s) ==
    LET k == First({j \in 1..Len(s) : s[j] = ","})
    IN  IF k = 0 THEN <<s>>
        ELSE <<SubSeq(s, 1, k - 1)>> \o SplitCommas(SubSeq(s, k + 1, Len(s)))

\* ', '.join(parts)
RECURSIVE JoinCommas(_)
JoinCommas(parts) ==
    IF parts = <<>> THEN <<>>
    ELSE IF Len(parts) = 1 THEN parts[1]
    ELSE parts[1] \o <<",", " ">> \o JoinCommas(Tail(parts))

\* ------------------------------------------------ parse_intersection_name
separators == <<" and ", " & ", " at ", " @ ">>

\* street1, street2 and location set from the two parts of the split
ParsedParts(parts) ==
    LET street1_parts == SplitCommas(Strip(parts[1]))
        street2_parts == SplitCommas(Strip(parts[2]))
    IN  [street1 |-> Str(Strip(street1_parts[1])),
         street2 |-> Str(Strip(street2_parts[1])),
         location |->
            IF Len(street2_parts) > 1
            THEN Str(Strip(JoinCommas(Tail(street2_parts))))
            ELSE IF Len(street1_parts) > 1
            THEN Str(Strip(JoinCommas(Tail(street1_parts))))
            ELSE NoneStr]

\* the loop over separators, from the k-th on
RECURSIVE ParseFrom(_, _)
ParseFrom(intersection_name, k) ==
    IF k > Len(separators)
    THEN [street1 |-> NoneStr, street2 |-> NoneStr, location |-> NoneStr]
    ELSE IF InLower(separators[k], intersection_name)
              /\ Len(SplitOnce(intersection_name, separators[k])) = 2
    THEN ParsedParts(SplitOnce(intersection_name, separators[k]))
    ELSE ParseFrom(intersection_name, k + 1)

ParseIntersectionName(intersection_name) == ParseFrom(intersection_name, 1)

\* ------------------------------------------------------------------- state
VARIABLES
    pc,             \* position in generate_network: "build", "connect",
                    \* "done" (returned), "raised" (left by an exception)
    idx,            \* loop index of the build loop (specs consumed so far)
    node_counter,   \* self.node_counter
    origin_lat,     \* self.origin_lat
    origin_lon,     \* self.origin_lon
    node,           \* heap of node dicts, by id
    all_nodes,      \* list all_nodes (ids, in list order)
    links,          \* list links
    intersections,  \* list intersections
    geocoded,       \* what geocode_intersection answered for each spec so far
    applied,        \* the connections processed so far, in order
    merges,         \* <<approach1 id, approach2 id>> of every merge carried out
    output,         \* rows written by generate_file_content
    intersections_data,  \* st.session_state.intersections_data
    connections     \* st.session_state.connections

vars == <<pc, idx, node_counter, origin_lat, origin_lon, node, all_nodes,
          links, intersections, geocoded, applied, merges, output,
          intersections_data, connections>>

\* the state of one SynchroGenerator run, and the lists of the form
generator == <<pc, idx, node_counter, origin_lat, origin_lon, node, all_nodes,
               links, intersections, geocoded, applied, merges, output>>

session == <<intersections_data, connections>>

NoOutput == [sections |-> <<>>, nodes |-> <<>>, links |-> <<>>,
             up_node |-> <<>>, dest_node |-> <<>>]

Init ==
    /\ pc = "build"
    /\ idx = 0
    /\ node_counter = 0
    /\ origin_lat = None
    /\ origin_lon = None
    /\ node = <<>>
    /\ all_nodes = <<>>
    /\ links = <<>>
    /\ intersections = <<>>
    /\ geocoded = <<>>
    /\ applied = <<>>
    /\ merges = <<>>
    /\ output = NoOutput
    /\ intersections_data = <<>>
    /\ connections = <<>>

\* ------------------------------------------------------- latlon_to_local
\* mutant of LatLonToLocal: every call takes its point as the origin
LatLonToLocalResets(lat, lon) ==
    [x |-> 0, y |-> 0, origin_lat |-> lat, origin_lon |-> lon]

\* x and y returned, and the origin left behind
LatLonToLocal(lat, lon) ==
    IF origin_lat = None
    THEN [x |-> 0, y |-> 0, origin_lat |-> lat, origin_lon |-> lon]
    ELSE [x |-> TruncDiv((lon - origin_lon) * CosNum, CosDen),
          y |-> lat - origin_lat,
          origin_lat |-> origin_lat, origin_lon |-> origin_lon]

\* ------------------------------------------------------- generate_network
CenterNode(id, x, y, i, name, street1, street2) ==
    [id |-> id, type |-> 1, x |-> x, y |-> y, direction |-> "",
     center_node |-> id, intersection_idx |-> i,
     name |-> name, street_ns |-> street1, street_ew |-> street2]

\* mutant of ApproachNode: the approach takes the center's id instead of a
\* fresh one
ApproachNodeSameId(id, x, y, d, center_id, i) ==
    [id |-> center_id, type |-> 0, x |-> x + DirDx(d), y |-> y + DirDy(d),
     direction |-> d, center_node |-> center_id, intersection_idx |-> i]

ApproachNode(id, x, y, d, center_id, i) ==
    [id |-> id, type |-> 0, x |-> x + DirDx(d), y |-> y + DirDy(d),
     direction |-> d, center_node |-> center_id, intersection_idx |-> i]

\* mutant of ApproachLinks: the return link from the center is not created
ApproachLinksOneWay(aid, center_id, d, cfg) ==
    << [from_node |-> aid, to_node |-> center_id, direction |-> d,
        lanes |-> cfg.lanes[d], distance |-> standard_approach_distance,
        speed |-> cfg.speed[d], twltl |-> cfg.twltl[d]] >>

\* mutant of ApproachLinks: the return link takes the values of d, not of
\* its opposite
ApproachLinksSameValues(aid, center_id, d, cfg) ==
    << [from_node |-> aid, to_node |-> center_id, direction |-> d,
        lanes |-> cfg.lanes[d], distance |-> standard_approach_distance,
        speed |-> cfg.speed[d], twltl |-> cfg.twltl[d]],
       [from_node |-> center_id, to_node |-> aid, direction |-> Opposite(d),
        lanes |-> cfg.lanes[d],
        distance |-> standard_approach_distance,
        speed |-> cfg.speed[d], twltl |-> cfg.twltl[d]] >>

\* the two links appended for the approach in direction d with id aid
ApproachLinks(aid, center_id, d, cfg) ==
    << [from_node |-> aid, to_node |-> center_id, direction |-> d,
        lanes |-> cfg.lanes[d], distance |-> standard_approach_distance,
        speed |-> cfg.speed[d], twltl |-> cfg.twltl[d]],
       [from_node |-> center_id, to_node |-> aid, direction |-> Opposite(d),
        lanes |-> cfg.lanes[Opposite(d)],
        distance |-> standard_approach_distance,
        speed |-> cfg.speed[Opposite(d)], twltl |-> cfg.twltl[Opposite(d)]] >>

\* loop body when geocoding fails: `continue`; the spec is drawn from Inputs
SkipIntersection(max_specs, Inputs) ==
    /\ pc = "build"
    /\ idx < max_specs
    /\ \E int_data \in Inputs :
         /\ Falsy(int_data.geo.lat) \/ Falsy(int_data.geo.lon)
         /\ geocoded' = Append(geocoded, int_data.geo)
    /\ idx' = idx + 1
    /\ UNCHANGED <<pc, node_counter, origin_lat, origin_lon, node, all_nodes,
                   links, intersections, applied, merges, output>>
    /\ UNCHANGED session

\* loop body for a geocoded spec: center node, four approach nodes, the
\* Intersection aggregate and the eight links
BuildIntersection(max_specs, Inputs) ==
    /\ pc = "build"
    /\ idx < max_specs
    /\ \E int_data \in Inputs :
         /\ ~(Falsy(int_data.geo.lat) \/ Falsy(int_data.geo.lon))
         /\ LET p         == LatLonToLocal(int_data.geo.lat, int_data.geo.lon)
                cfg       == int_data.cfg
                center_id == node_counter + 1
                parsed    == ParseIntersectionName(int_data.name)
                center_node == CenterNode(center_id, p.x, p.y, idx,
                                          int_data.name,
                                          parsed.street1, parsed.street2)
                approaches == [k \in 1..4 |->
                                 ApproachNode(center_id + k, p.x, p.y,
                                              Directions[k], center_id, idx)]
            IN  /\ origin_lat' = p.origin_lat
                /\ origin_lon' = p.origin_lon
                /\ node_counter' = node_counter + 5
                /\ node' = node \o <<center_node>> \o approaches
                /\ all_nodes' = all_nodes \o <<center_node.id>>
                                   \o [k \in 1..4 |-> approaches[k].id]
                /\ intersections' = Append(intersections,
                        [center_node |-> center_node.id,
                         approaches |-> [k \in 1..4 |-> approaches[k].id],
                         config |-> cfg, idx |-> idx])
                /\ links' = links
                        \o ApproachLinks(approaches[1].id, center_id, Directions[1], cfg)
                        \o ApproachLinks(approaches[2].id, center_id, Directions[2], cfg)
                        \o ApproachLinks(approaches[3].id, center_id, Directions[3], cfg)
                        \o ApproachLinks(approaches[4].id, center_id, Directions[4], cfg)
         /\ geocoded' = Append(geocoded, int_data.geo)
    /\ idx' = idx + 1
    /\ UNCHANGED <<pc, applied, merges, output>>
    /\ UNCHANGED session

\* the build loop ends (the spec list has idx entries)
ApplyConnections ==
    /\ pc = "build"
    /\ pc' = "connect"
    /\ UNCHANGED <<idx, node_counter, origin_lat, origin_lon, node, all_nodes,
                   links, intersections, geocoded, applied, merges, output>>
    /\ UNCHANGED session

\* --------------------------------------------------- connect_intersections
\* mutant of FindIntersection: the k-th aggregate of the list, whatever its
\* index
FindIntersectionByPosition(k) ==
    IF k + 1 <= Len(intersections) THEN k + 1 ELSE 0

\* next((i for i in intersections if i['idx'] == k), None), as a position
FindIntersection(k) ==
    First({j \in 1..Len(intersections) : intersections[j].idx = k})

\* next((a for a in int['approaches'] if a['direction'] == d), None), as an id
FindApproach(int, d) ==
    LET k == First({j \in 1..Len(int.approaches) :
                      node[int.approaches[j]].direction = d})
    IN  IF k = 0 THEN None ELSE int.approaches[k]

\* mutant of Dir1: the East-West sign test reversed
Dir1Reversed(dx, dy) ==
    IF Abs(dx) > Abs(dy)
    THEN (IF dx > 0 THEN "WB" ELSE "EB")
    ELSE (IF dy > 0 THEN "NB" ELSE "SB")

\* mutant of Dir1: a tie between |dx| and |dy| goes East-West
Dir1TieEastWest(dx, dy) ==
    IF Abs(dx) >= Abs(dy)
    THEN (IF dx > 0 THEN "EB" ELSE "WB")
    ELSE (IF dy > 0 THEN "NB" ELSE "SB")

\* dir1 of the merge, from the centers' dx and dy
Dir1(dx, dy) ==
    IF Abs(dx) > Abs(dy)
    THEN (IF dx > 0 THEN "EB" ELSE "WB")
    ELSE (IF dy > 0 THEN "NB" ELSE "SB")

\* dir2 of the merge
Dir2(dx, dy) ==
    IF Abs(dx) > Abs(dy)
    THEN (IF dx > 0 THEN "WB" ELSE "EB")
    ELSE (IF dy > 0 THEN "SB" ELSE "NB")

\* mutant of RewriteLink: a rewritten link also takes the opposite label
RewriteLinkRelabels(link, a1, a2) ==
    [link EXCEPT !.from_node = IF @ = a2 THEN a1 ELSE @,
                 !.to_node   = IF @ = a2 THEN a1 ELSE @,
                 !.direction = IF link.from_node = a2 \/ link.to_node = a2
                               THEN Opposite(@) ELSE @]

\* the first loop over links: endpoints equal to a2 become a1
RewriteLink(link, a1, a2) ==
    [link EXCEPT !.from_node = IF @ = a2 THEN a1 ELSE @,
                 !.to_node   = IF @ = a2 THEN a1 ELSE @]

\* mutant of UpdateDistance: only the links of the first center are updated
UpdateDistanceFirstCenter(link, a1, c1, c2, dist1, dist2) ==
    IF link.from_node = a1 /\ link.to_node = c1 THEN [link EXCEPT !.distance = dist1]
    ELSE IF link.from_node = c1 /\ link.to_node = a1 THEN [link EXCEPT !.distance = dist1]
    ELSE link

\* the second loop over links: the if / elif chain on the links between the
\* kept approach and the two centers
UpdateDistance(link, a1, c1, c2, dist1, dist2) ==
    IF link.from_node = a1 /\ link.to_node = c1 THEN [link EXCEPT !.distance = dist1]
    ELSE IF link.from_node = c1 /\ link.to_node = a1 THEN [link EXCEPT !.distance = dist1]
    ELSE IF link.from_node = a1 /\ link.to_node = c2 THEN [link EXCEPT !.distance = dist2]
    ELSE IF link.from_node = c2 /\ link.to_node = a1 THEN [link EXCEPT !.distance = dist2]
    ELSE link

\* mutant of RemoveNode: the list is left as it is
RemoveNodeKeepsAll(nodes, a2) == nodes

\* all_nodes[:] = [n for n in all_nodes if n['id'] != a2]
RemoveNode(nodes, a2) == SelectSeq(nodes, LAMBDA n : n # a2)

\* int(math.sqrt((mid_x - center['x'])**2 + (mid_y - center['y'])**2))
Distance(mid_x, mid_y, center) ==
    ISqrt((mid_x - center.x) * (mid_x - center.x)
          + (mid_y - center.y) * (mid_y - center.y))

\* mutant of Merged: both merged approach nodes are deleted from all_nodes
MergedDropsBoth(approach1, approach2, center1, center2, mid_x, mid_y, dist1, dist2) ==
    [node |-> [node EXCEPT ![approach1].x = mid_x, ![approach1].y = mid_y],
     all_nodes |-> SelectSeq(all_nodes,
                             LAMBDA n : n # approach2 /\ n # approach1),
     links |-> [k \in 1..Len(links) |->
                  UpdateDistance(RewriteLink(links[k], approach1, approach2),
                                 approach1, center1.id, center2.id, dist1, dist2)],
     merged |-> <<approach1, approach2>>]

\* the body of the merge, from `approach1['x'] = mid_x` on
Merged(approach1, approach2, center1, center2, mid_x, mid_y, dist1, dist2) ==
    [node |-> [node EXCEPT ![approach1].x = mid_x, ![approach1].y = mid_y],
     all_nodes |-> RemoveNode(all_nodes, approach2),
     links |-> [k \in 1..Len(links) |->
                  UpdateDistance(RewriteLink(links[k], approach1, approach2),
                                 approach1, center1.id, center2.id, dist1, dist2)],
     merged |-> <<approach1, approach2>>]

\* what one call leaves behind: the heap, all_nodes, links, and the pair of
\* approaches it merged (<<>> when it returned early)
Connected(int1_idx, int2_idx) ==
    LET k1 == FindIntersection(int1_idx)
        k2 == FindIntersection(int2_idx)
        same == [node |-> node, all_nodes |-> all_nodes, links |-> links,
                 merged |-> <<>>]
    IN  IF k1 = 0 \/ k2 = 0 THEN same
        ELSE
        LET int1 == intersections[k1]
            int2 == intersections[k2]
            center1 == node[int1.center_node]
            center2 == node[int2.center_node]
            dx == center2.x - center1.x
            dy == center2.y - center1.y
            approach1 == FindApproach(int1, Dir1(dx, dy))
            approach2 == FindApproach(int2, Dir2(dx, dy))
        IN  IF approach1 = None \/ approach2 = None THEN same
            ELSE
            LET mid_x == (node[approach1].x + node[approach2].x) \div 2
                mid_y == (node[approach1].y + node[approach2].y) \div 2
            IN  Merged(approach1, approach2, center1, center2, mid_x, mid_y,
                       Distance(mid_x, mid_y, center1),
                       Distance(mid_x, mid_y, center2))

\* the pairs main can have stored next in st.session_state.connections:
\* tuple(sorted([int1_idx, int2_idx])) of two different positions of
\* intersections_data, not stored before
StoredPairs ==
    { c \in (0..(idx - 1)) \X (0..(idx - 1)) :
        /\ c[1] < c[2]
        /\ \A k \in 1..Len(applied) : applied[k] # c }

\* any pair of indices below n
AnyPairs(n) == (0..(n - 1)) \X (0..(n - 1))

\* one iteration of `for int1_idx, int2_idx in connections`, the pair drawn
\* from Pairs
ConnectIntersections(max_conns, Pairs) ==
    /\ pc = "connect"
    /\ Len(applied) < max_conns
    /\ \E c \in Pairs :
         \E r \in {Connected(c[1], c[2])} :
             /\ node' = r.node
             /\ all_nodes' = r.all_nodes
             /\ links' = r.links
             /\ merges' = IF r.merged = <<>> THEN merges ELSE Append(merges, r.merged)
             /\ applied' = Append(applied, c)
    /\ UNCHANGED <<pc, idx, node_counter, origin_lat, origin_lon,
                   intersections, geocoded, output>>
    /\ UNCHANGED session

\* -------------------------------------------------- generate_lanes_section
\* lanes_data of one Intersection aggregate: an entry per direction that has
\* an approach, in the order NB, SB, EB, WB
LanesEntry(int, d) ==
    [direction |-> d,
     approach_node |-> FindApproach(int, d),
     dest_nodes |-> [L |-> FindApproach(int, LeftDir(d)),
                     T |-> FindApproach(int, Opposite(d)),
                     R |-> FindApproach(int, RightDir(d))]]

GenerateLanesSection(center_node_id) ==
    LET k == First({j \in 1..Len(intersections) :
                      intersections[j].center_node = center_node_id})
    IN  IF k = 0 THEN <<>>
        ELSE SelectSeq([j \in 1..4 |-> LanesEntry(intersections[k], Directions[j])],
                       LAMBDA e : e.approach_node # None)

\* --------------------------------------------------- generate_file_content
\* a blank cell of a row
Blank == None

\* the cell of the Up Node row for direction d (written three times)
UpNodeCell(lanes_data, d) ==
    LET k == First({j \in 1..Len(lanes_data) : lanes_data[j].direction = d})
    IN  IF k = 0 THEN Blank ELSE lanes_data[k].approach_node

\* the L, T or R cell of the Dest Node row for direction d
DestNodeCell(lanes_data, d, m) ==
    LET k == First({j \in 1..Len(lanes_data) : lanes_data[j].direction = d})
    IN  IF k = 0 THEN Blank ELSE lanes_data[k].dest_nodes[m]

\* the Up Node row of one intersection: center id, then a cell per direction
UpNodeRow(int) ==
    LET ld == GenerateLanesSection(int.center_node)
    IN  [INTID |-> int.center_node,
         cells |-> [d \in DirSet |-> UpNodeCell(ld, d)]]

\* the Dest Node row of one intersection
DestNodeRow(int) ==
    LET ld == GenerateLanesSection(int.center_node)
    IN  [INTID |-> int.center_node,
         cells |-> [d \in DirSet |->
                      [m \in {"L", "T", "R"} |-> DestNodeCell(ld, d, m)]]]

\* links_by_node[up]: for each direction the position in links of the link
\* stored last under it, 0 for None
StoredLast(departing, d) ==
    Last({k \in departing : links[k].direction = d})

LinksByNode(up) ==
    LET departing == {k \in 1..Len(links) : links[k].from_node = up}
    IN  [NB |-> StoredLast(departing, "NB"), SB |-> StoredLast(departing, "SB"),
         EB |-> StoredLast(departing, "EB"), WB |-> StoredLast(departing, "WB")]

\* the keys of links_by_node, sorted
UpNodeIds == Sorted({links[k].from_node : k \in 1..Len(links)})

\* street_ns and street_ew looked up for the Name row of up_node_id
StreetNames(up_node_id) ==
    LET empty == [street_ns |-> Str(<<>>), street_ew |-> Str(<<>>)]
        owner == First({j \in 1..Len(intersections) :
                          \E a \in 1..Len(intersections[j].approaches) :
                              intersections[j].approaches[a] = up_node_id})
    IN  IF \A k \in 1..Len(all_nodes) : all_nodes[k] # up_node_id THEN empty
        ELSE IF node[up_node_id].type = 1
        THEN [street_ns |-> node[up_node_id].street_ns,
              street_ew |-> node[up_node_id].street_ew]
        ELSE IF owner = 0 THEN empty
        ELSE [street_ns |-> node[intersections[owner].center_node].street_ns,
              street_ew |-> node[intersections[owner].center_node].street_ew]

\* f"{dirs[d][key] if dirs[d] else ''}"
LinkCell(dirs, d, key) ==
    IF dirs[d] = 0 THEN Blank ELSE links[dirs[d]][key]

\* the NB, SB, EB and WB cells of one row of link values
LinkCells(dirs, key) ==
    [NB |-> LinkCell(dirs, "NB", key), SB |-> LinkCell(dirs, "SB", key),
     EB |-> LinkCell(dirs, "EB", key), WB |-> LinkCell(dirs, "WB", key)]

\* f"{street if dirs[d] else ''}"
NameCell(dirs, d, street) ==
    IF dirs[d] = 0 THEN <<>> ELSE Format(street)

\* the Up ID, Lanes, Name, Distance, Speed and TWLTL rows of one up node
LinkRows(up_node_id) ==
    LET dirs == LinksByNode(up_node_id)
        st   == StreetNames(up_node_id)
    IN  [INTID |-> up_node_id,
         up_id |-> LinkCells(dirs, "to_node"),
         lanes |-> LinkCells(dirs, "lanes"),
         name |-> [NB |-> NameCell(dirs, "NB", st.street_ns),
                   SB |-> NameCell(dirs, "SB", st.street_ns),
                   EB |-> NameCell(dirs, "EB", st.street_ew),
                   WB |-> NameCell(dirs, "WB", st.street_ew)],
         distance |-> LinkCells(dirs, "distance"),
         speed |-> LinkCells(dirs, "speed"),
         twltl |-> LinkCells(dirs, "twltl")]

\* the Time row divides dirs[d]['distance'] by dirs[d]['speed'], the value of
\* the Speed row's cell: ZeroDivisionError for a speed of 0
TimeRowRaises(rows) ==
    \E n \in 1..Len(rows) : \E d \in DirSet : rows[n].speed[d] = 0

\* the section headers, in the order they are written
Sections ==
    <<"[Network]", "[Nodes]", "[Links]", "[Lanes]", "[Timeplans]", "[Phases]">>

\* the rows of the [Links] section, for the sorted up node ids
RECURSIVE LinksSection(_)
LinksSection(ids) ==
    IF ids = <<>> THEN <<>>
    ELSE <<LinkRows(Head(ids))>> \o LinksSection(Tail(ids))

\* the document: the section headers, the [Nodes] rows, the rows of [Links]
\* and the Up Node / Dest Node rows of [Lanes]
Document(link_rows) ==
    [sections |-> Sections,
     nodes |-> [k \in 1..Len(all_nodes) |->
                  [INTID |-> node[all_nodes[k]].id,
                   TYPE |-> node[all_nodes[k]].type,
                   X |-> node[all_nodes[k]].x,
                   Y |-> node[all_nodes[k]].y]],
     links |-> link_rows,
     up_node |-> [k \in 1..Len(intersections) |-> UpNodeRow(intersections[k])],
     dest_node |-> [k \in 1..Len(intersections) |-> DestNodeRow(intersections[k])]]

\* generate_file_content: the document is returned, or nothing when the Time
\* row raises
GenerateFileContent ==
    /\ pc = "connect"
    /\ \E ids \in {UpNodeIds} : \E link_rows \in {LinksSection(ids)} :
          IF TimeRowRaises(link_rows)
          THEN pc' = "raised" /\ output' = NoOutput
          ELSE pc' = "done" /\ output' = Document(link_rows)
    /\ UNCHANGED <<idx, node_counter, origin_lat, origin_lon, node, all_nodes,
                   links, intersections, geocoded, applied, merges>>
    /\ UNCHANGED session

\* ---------------------------------------------------------------- main
\* the specs the form is filled with
PendingInputs == {r \in StreetInputs : r.cfg = DefaultConfig /\ r.geo # GeoMiss}

\* "Confirm & Add Intersection"
ConfirmAddIntersection ==
    /\ Len(intersections_data) < MaxPending
    /\ \E int_data \in PendingInputs :
          intersections_data' = Append(intersections_data, int_data)
    /\ UNCHANGED connections
    /\ UNCHANGED generator

\* "Remove" of an added intersection: intersections_data.pop(i)
RemoveIntersection ==
    /\ \E i \in 0..(Len(intersections_data) - 1) :
          intersections_data' =
              SubSeq(intersections_data, 1, i)
                  \o SubSeq(intersections_data, i + 2, Len(intersections_data))
    /\ UNCHANGED connections
    /\ UNCHANGED generator

\* mutant of Connection: the pair is stored as submitted
ConnectionAsSubmitted(int1_idx, int2_idx) == <<int1_idx, int2_idx>>

\* tuple(sorted([int1_idx, int2_idx]))
Connection(int1_idx, int2_idx) ==
    IF int1_idx <= int2_idx THEN <<int1_idx, int2_idx>> ELSE <<int2_idx, int1_idx>>

\* "Connect These" with the two select boxes at int1_idx and int2_idx
ConnectThese ==
    /\ Len(intersections_data) >= 2
    /\ Len(connections) < MaxStored
    /\ \E int1_idx, int2_idx \in 0..(Len(intersections_data) - 1) :
          connections' =
              IF int1_idx = int2_idx THEN connections
              ELSE IF \E k \in 1..Len(connections) :
                          connections[k] = Connection(int1_idx, int2_idx)
              THEN connections
              ELSE Append(connections, Connection(int1_idx, int2_idx))
    /\ UNCHANGED intersections_data
    /\ UNCHANGED generator

\* "Remove" of the connection at position i: connections.pop(i).  The button
\* is written after the names of the connection's two intersections, for
\* every connection up to it
RemoveConnection ==
    /\ Len(intersections_data) >= 2
    /\ \E i \in 0..(Len(connections) - 1) :
          /\ \A k \in 1..(i + 1) :
                /\ connections[k][1] < Len(intersections_data)
                /\ connections[k][2] < Len(intersections_data)
          /\ connections' = SubSeq(connections, 1, i)
                               \o SubSeq(connections, i + 2, Len(connections))
    /\ UNCHANGED intersections_data
    /\ UNCHANGED generator

\* the form of main, before "Generate Synchro Network"
NextUI ==
    \/ ConfirmAddIntersection
    \/ RemoveIntersection
    \/ ConnectThese
    \/ RemoveConnection

SpecUI == Init /\ [][NextUI]_vars

\* generate_network with the list of connections main stores, for
\* intersections along one street
Next ==
    \/ SkipIntersection(MaxSpecs, StreetInputs)
    \/ BuildIntersection(MaxSpecs, StreetInputs)
    \/ ApplyConnections
    \/ ConnectIntersections(MaxConns, StoredPairs)
    \/ GenerateFileContent

Spec == Init /\ [][Next]_vars

\* generate_network with any list of index pairs
NextAny ==
    \/ SkipIntersection(AnySpecs, SpecInputs)
    \/ BuildIntersection(AnySpecs, SpecInputs)
    \/ ApplyConnections
    \/ ConnectIntersections(AnyConns, AnyPairs(AnySpecs))
    \/ GenerateFileContent

SpecAny == Init /\ [][NextAny]_vars

\* generate_network's position moves from the connections loop to its return
\* statement: under NextAny these are the steps of GenerateFileContent, which
\* is enabled wherever pc = "connect"
Returns == pc = "connect" /\ pc' \in {"done", "raised"}

\* the same, for finite lists: the loop over intersections_data ends, and so
\* does the loop over connections (the run is one synchronous call)
FairSpecAny == SpecAny /\ WF_vars(ApplyConnections) /\ WF_pc(Returns)

\* ================================================================== claims
\* ids of the nodes in all_nodes
NodeIds == {all_nodes[k] : k \in 1..Len(all_nodes)}

\* the step processes one more entry of the connections list
ConnectStep == Len(applied') = Len(applied) + 1

\* the entry the step processes
Processed == applied'[Len(applied')]

\* entry c names two different built intersections and no earlier entry
\* named the same two, in either order
ValidConnection(c) ==
    /\ c[1] # c[2]
    /\ \E k \in 1..Len(intersections) : intersections[k].idx = c[1]
    /\ \E k \in 1..Len(intersections) : intersections[k].idx = c[2]
    /\ \A k \in 1..Len(applied) :
          applied[k] # c /\ applied[k] # <<c[2], c[1]>>

\* the Intersection aggregate with index i (i names a built intersection)
IntersectionAt(i) ==
    CHOOSE int \in {intersections[k] : k \in 1..Len(intersections)} : int.idx = i

\* the ids in an aggregate's approaches list whose node has direction d
ApproachesIn(int, d) ==
    {a \in {int.approaches[k] : k \in 1..Len(int.approaches)} :
        node[a].direction = d}

\* the approach of intersection c[2] that faces intersection c[1]
FacingApproach2(c) ==
    LET c1 == node[IntersectionAt(c[1]).center_node]
        c2 == node[IntersectionAt(c[2]).center_node]
        d  == IF Abs(c2.x - c1.x) > Abs(c2.y - c1.y)
              THEN (IF c2.x > c1.x THEN "WB" ELSE "EB")
              ELSE (IF c2.y > c1.y THEN "SB" ELSE "NB")
    IN  CHOOSE a \in ApproachesIn(IntersectionAt(c[2]), d) : TRUE

\* C1: after any sequence of connections, the from_node and the to_node of
\* every link are ids of nodes present in all_nodes.
C1_LinkEndpointsInNodeSet ==
    \A k \in 1..Len(links) :
        links[k].from_node \in NodeIds /\ links[k].to_node \in NodeIds

\* C2 as stated: every valid connection reduces the number of nodes by
\* exactly 1, whatever connections were applied before it.
C2_ValidConnectionRemovesOneNode ==
    [][(ConnectStep /\ ValidConnection(Processed))
          => Len(all_nodes') = Len(all_nodes) - 1]_vars

\* C2 as amended: a valid connection (i, j) reduces the number of nodes by
\* exactly 1 when the approach of j facing i is still in the node set, and by
\* 0 when an earlier connection already removed that approach.
C2_ValidConnectionRemovesFacingApproach ==
    [][(ConnectStep /\ ValidConnection(Processed))
          => /\ FacingApproach2(Processed) \in NodeIds
                    => Len(all_nodes') = Len(all_nodes) - 1
             /\ FacingApproach2(Processed) \notin NodeIds
                    => Len(all_nodes') = Len(all_nodes)]_vars

\* C2 witness: two different valid connections were processed, the second
\* one facing an approach the first had removed; one node is gone, not two.
C2_Witness ==
    /\ Len(applied) = 2
    /\ Len(merges) = 2
    /\ applied[1][1] # applied[2][1]
    /\ applied[1][2] = applied[2][2]
    /\ merges[1][2] = merges[2][2]
    /\ Len(intersections) = 3
    /\ Len(all_nodes) = 14

\* C3: an invalid connection (a self-reference, a repeat of an applied pair,
\* or a pair naming an index with no built intersection) leaves the number of
\* nodes unchanged.
C3_InvalidConnectionRemovesNothing ==
    [][(ConnectStep /\ ~ValidConnection(Processed))
          => Len(all_nodes') = Len(all_nodes)]_vars

\* the merges carried out so far touch pairwise disjoint approach pairs
DisjointMerges ==
    \A a, b \in 1..Len(merges) :
        a # b => {merges[a][1], merges[a][2]} \cap {merges[b][1], merges[b][2]} = {}

\* the approach nodes in the node set that belong to center c
ApproachNodesOf(c) ==
    {a \in NodeIds : node[a].type = 0 /\ node[a].center_node = c}

\* C4: with n built intersections and k merges touching pairwise disjoint
\* approach pairs the node set has 5n - k nodes, and before any merge every
\* center node has exactly four approach nodes.
C4_DisjointMergesNodeCount ==
    /\ DisjointMerges
          => Len(all_nodes) = 5 * Len(intersections) - Len(merges)
    /\ merges = <<>>
          => \A k \in 1..Len(intersections) :
                Cardinality(ApproachNodesOf(intersections[k].center_node)) = 4

\* C4 witness: three intersections, two merges on disjoint approach pairs
C4_Witness ==
    /\ Len(intersections) = 3
    /\ Len(merges) = 2
    /\ DisjointMerges
    /\ Len(all_nodes) = 13

\* C5: every link has distance > 0 and speed > 0 in every state of
\* generate_network, wherever the centers lie.
C5_PositiveDistanceAndSpeed ==
    \A k \in 1..Len(links) : links[k].distance > 0 /\ links[k].speed > 0

\* C6: once a merge has removed an approach node of intersection j, the
\* turning-movement table of j has no entry for that direction and no L / T /
\* R destination equal to the removed id, and the Up Node and Dest Node cells
\* written for that direction are blank.
C6_RemovedApproachLeavesGap ==
    \A m \in 1..Len(merges) :
        LET removed == merges[m][2]
            d  == node[removed].direction
            j  == FindIntersection(node[removed].intersection_idx)
            ld == GenerateLanesSection(intersections[j].center_node)
        IN  /\ \A e \in 1..Len(ld) :
                  /\ ld[e].direction # d
                  /\ \A t \in {"L", "T", "R"} : ld[e].dest_nodes[t] # removed
            /\ pc = "done"
                  => /\ output.up_node[j].cells[d] = Blank
                     /\ \A t \in {"L", "T", "R"} :
                           output.dest_node[j].cells[d][t] = Blank

\* number of specs geocode_intersection found a candidate for
Hits ==
    Cardinality({k \in 1..Len(geocoded) :
                    geocoded[k].lat # None /\ geocoded[k].lon # None})

\* ids of the center nodes in the node set
CenterIds == {a \in NodeIds : node[a].type = 1}

EastWestPair ==
    /\ Len(intersections) = 2
    /\ applied = <<<<intersections[1].idx, intersections[2].idx>>>>
    /\ node[intersections[1].center_node].y = node[intersections[2].center_node].y
    /\ node[intersections[2].center_node].x > node[intersections[1].center_node].x
    /\ node[intersections[2].center_node].x - node[intersections[1].center_node].x < 3000

\* the distance d between the two centers of EastWestPair
EastWestGap ==
    node[intersections[2].center_node].x - node[intersections[1].center_node].x

\* in the case of C8: the first intersection's EB approach is kept, the
\* second's WB approach is removed, and 9 nodes remain
EastWestMerge ==
    /\ Len(merges) = 1
    /\ merges[1][1] \in ApproachesIn(intersections[1], "EB")
    /\ merges[1][2] \in ApproachesIn(intersections[2], "WB")
    /\ merges[1][1] \in NodeIds
    /\ merges[1][2] \notin NodeIds
    /\ Len(all_nodes) = 9

\* the links touching the node kept by the first merge
MergedLinks ==
    {k \in 1..Len(links) :
        links[k].from_node = merges[1][1] \/ links[k].to_node = merges[1][1]}

\* C8 as stated: in the case of EastWestPair the East-West axis is chosen, EB
\* of the first is kept and WB of the second removed, 9 nodes remain, and
\* every link touching the merged node is shorter than 1500.
C8_EastWestMergeShorterThan1500 ==
    EastWestPair
        => /\ EastWestMerge
           /\ \A k \in MergedLinks : links[k].distance < 1500

\* C8 as amended: the same, but the links touching the merged node have
\* distance at most 1500, and less than 1500 when d <= 2998.
C8_EastWestMergeAtMost1500 ==
    EastWestPair
        => /\ EastWestMerge
           /\ \A k \in MergedLinks : links[k].distance <= 1500
           /\ EastWestGap <= 2998
                 => \A k \in MergedLinks : links[k].distance < 1500

\* C8 witness: centers 2999 ft apart, merged; the kept node sits at x = 1499
\* and its links to the second center have distance 1500
C8_Witness ==
    /\ EastWestPair
    /\ EastWestGap = 2999
    /\ EastWestMerge
    /\ node[merges[1][1]].x - node[intersections[1].center_node].x = 1499
    /\ \E k \in MergedLinks : links[k].distance = 1500
    /\ \E k \in MergedLinks : links[k].distance = 1499

\* the fixed tables of the spec: left-of, its inverse right-of, and opposite
LeftOf == [NB |-> "WB", WB |-> "SB", SB |-> "EB", EB |-> "NB"]

RightOf == [d \in DirSet |-> CHOOSE e \in DirSet : LeftOf[e] = d]

OppositeOf == [NB |-> "SB", SB |-> "NB", EB |-> "WB", WB |-> "EB"]

\* the id of the aggregate's approach in direction d, None if it has none
ApproachIdIn(int, d) ==
    IF ApproachesIn(int, d) = {} THEN None
    ELSE CHOOSE a \in ApproachesIn(int, d) : TRUE

\* C9: for every intersection and every direction d it has an approach in,
\* the table gives T = the approach in opposite(d), L = the approach in
\* left-of(d), R = the approach in right-of(d), absent when the intersection
\* has no approach there; lanes, speeds and turn-lane settings play no part.
C9_MovementsFollowCompassTables ==
    \A k \in 1..Len(intersections) :
        LET int == intersections[k]
            ld  == GenerateLanesSection(int.center_node)
        IN  \A d \in DirSet :
              ApproachesIn(int, d) # {}
                => /\ \E e \in 1..Len(ld) :
                         /\ ld[e].direction = d
                         /\ ld[e].approach_node = ApproachIdIn(int, d)
                         /\ ld[e].dest_nodes.T = ApproachIdIn(int, OppositeOf[d])
                         /\ ld[e].dest_nodes.L = ApproachIdIn(int, LeftOf[d])
                         /\ ld[e].dest_nodes.R = ApproachIdIn(int, RightOf[d])
                   /\ pc = "done"
                         => /\ output.dest_node[k].cells[d].T
                                  = ApproachIdIn(int, OppositeOf[d])
                            /\ output.dest_node[k].cells[d].L
                                  = ApproachIdIn(int, LeftOf[d])
                            /\ output.dest_node[k].cells[d].R
                                  = ApproachIdIn(int, RightOf[d])

\* C9 witness: a finished run with two intersections of different settings;
\* the first one's NB row reads L = its WB approach, T = SB, R = EB
C9_Witness ==
    /\ pc = "done"
    /\ Len(intersections) = 2
    /\ intersections[1].config # intersections[2].config
    /\ output.dest_node[1].cells["NB"] = [L |-> 5, T |-> 3, R |-> 4]
    /\ output.dest_node[2].cells["EB"] = [L |-> 7, T |-> 10, R |-> 8]

\* C10: node ids are pairwise distinct and assigned 1, 2, 3, ... in creation
\* order, center first and then its NB, SB, EB, WB approaches; a geocoding
\* miss consumes no id, and the id of a removed node is not given out again.
C10_NodeIdsInCreationOrder ==
    /\ \A k \in 1..Len(node) : node[k].id = k
    /\ node_counter = Len(node)
    /\ \A k \in 1..(Len(all_nodes) - 1) : all_nodes[k] < all_nodes[k + 1]
    /\ \A k \in 1..Len(all_nodes) : all_nodes[k] \in 1..node_counter
    /\ \A k \in 1..Len(intersections) :
          /\ intersections[k].center_node = 5 * (k - 1) + 1
          /\ node[5 * (k - 1) + 1].type = 1
          /\ \A j \in 1..4 :
                /\ intersections[k].approaches[j] = 5 * (k - 1) + 1 + j
                /\ node[5 * (k - 1) + 1 + j].type = 0
                /\ node[5 * (k - 1) + 1 + j].direction = Directions[j]
    /\ node_counter = 5 * Hits
    /\ \A m \in 1..Len(merges) : merges[m][2] \notin NodeIds

\* C10 witness: the first spec missed, two were built, and a merge has
\* removed a node: ids 1..10 were given out and 9 of them remain
C10_Witness ==
    /\ Len(geocoded) = 3
    /\ geocoded[1] = GeoMiss
    /\ Hits = 2
    /\ node_counter = 10
    /\ Len(merges) = 1
    /\ Len(all_nodes) = 9
\* the step consumes one spec of the batch
BuildStep == Len(geocoded') = Len(geocoded) + 1

\* geocode_intersection answered (None, None) for the spec the step consumes
GeocodingFailed == geocoded'[Len(geocoded')] = GeoMiss

\* C11: when geocoding of a spec fails, generate_network creates no node, no
\* link and no Intersection aggregate for it, raises nothing, and goes on
\* with the next spec of the batch.
C11_GeocodingMissCreatesNothing ==
    [][(BuildStep /\ GeocodingFailed)
          => /\ UNCHANGED <<node, all_nodes, links, intersections,
                             node_counter, origin_lat, origin_lon>>
             /\ pc' = "build"
             /\ idx' = idx + 1
             /\ Len(geocoded') = idx']_vars

\* C11 witness: the second of three specs missed; the first and the third
\* were built, ten nodes and sixteen links in all
C11_Witness ==
    /\ Len(geocoded) = 3
    /\ geocoded[1] # GeoMiss
    /\ geocoded[2] = GeoMiss
    /\ geocoded[3] # GeoMiss
    /\ Len(intersections) = 2
    /\ Len(all_nodes) = 10
    /\ Len(links) = 16

\* index i names a built intersection
Built(i) == \E k \in 1..Len(intersections) : intersections[k].idx = i

\* position (from 0) in the spec list of the k-th spec that was geocoded
HitPosition(k) ==
    CHOOSE i \in 0..(Len(geocoded) - 1) :
        /\ geocoded[i + 1] # GeoMiss
        /\ Cardinality({j \in 1..i : geocoded[j] # GeoMiss}) = k - 1

\* every aggregate, and each of its approach nodes, carries the position of
\* its spec in the input list
IndexIsInputPosition ==
    \A k \in 1..Len(intersections) :
        /\ intersections[k].idx = HitPosition(k)
        /\ \A j \in 1..4 :
              node[intersections[k].approaches[j]].intersection_idx = HitPosition(k)

\* C12: an intersection's index is its position in the input spec list, not
\* shifted by an earlier geocoding miss; a connection naming an index that
\* was dropped or never existed leaves nodes, links and intersections
\* unchanged.
C12_IndexStableAndUnknownIndexNoOp ==
    [][/\ IndexIsInputPosition'
       /\ (ConnectStep /\ (~Built(Processed[1]) \/ ~Built(Processed[2])))
             => UNCHANGED <<node, all_nodes, links, intersections>>]_vars

\* C12 witness: the first spec missed and the second was built with index 1;
\* the connection (0, 1), naming the dropped index 0, merged nothing
C12_Witness ==
    /\ Len(geocoded) = 2
    /\ geocoded[1] = GeoMiss
    /\ Len(intersections) = 1
    /\ intersections[1].idx = 1
    /\ applied = <<<<0, 1>>>>
    /\ merges = <<>>
    /\ Len(all_nodes) = 5

\* the name has none of the separator phrases, in any letter case
NoSeparator(name) ==
    \A k \in 1..Len(separators) : ~InLower(separators[k], name)

\* the rows of the Links section written for up node n
LinkRowsOf(n) ==
    {output.links[r] : r \in {q \in 1..Len(output.links) : output.links[q].INTID = n}}

\* C13: for an intersection whose name contains no recognized separator, the
\* center node's two street-name fields are unset and every Name-row cell of
\* the Links section for its center and approach nodes is an empty field,
\* while the Lanes, Speed and TWLTL cells of the center's rows are those of
\* the spec.
C13_UnparsedNameLeavesEmptyNameCells ==
    \A k \in 1..Len(intersections) :
        LET int    == intersections[k]
            center == node[int.center_node]
            own    == {int.center_node} \cup {int.approaches[j] : j \in 1..4}
        IN  NoSeparator(center.name)
              => /\ center.street_ns = NoneStr
                 /\ center.street_ew = NoneStr
                 /\ pc = "done"
                       => /\ \A n \in own : \A r \in LinkRowsOf(n) :
                                \A d \in DirSet : r.name[d] = <<>>
                          /\ \A r \in LinkRowsOf(int.center_node) :
                                \A d \in DirSet :
                                   /\ r.lanes[d] = int.config.lanes[d]
                                   /\ r.speed[d] = int.config.speed[d]
                                   /\ r.twltl[d] = int.config.twltl[d]
\* the entries of connections, as unordered pairs
StoredPairSets == {{connections[k][1], connections[k][2]} : k \in 1..Len(connections)}

\* C14: after any sequence of 'Connect These' submissions, the stored
\* connection list holds at most one entry per unordered pair {i, j} and no
\* entry with i = j; every entry is the sorted pair.
C14_OneEntryPerUnorderedPair ==
    /\ \A k \in 1..Len(connections) : connections[k][1] < connections[k][2]
    /\ Cardinality(StoredPairSets) = Len(connections)

\* C14 witness: with three intersections added, all three pairs are stored;
\* every further submission is a self-connection or a repeat
C14_Witness ==
    /\ Len(intersections_data) = 3
    /\ Len(connections) = 3
    /\ StoredPairSets = {{0, 1}, {0, 2}, {1, 2}}

\* position in geocoded of the first spec that was geocoded, 0 if none was
FirstHit == First({k \in 1..Len(geocoded) : geocoded[k] # GeoMiss})

\* C15: the projection origin is set by the first latlon_to_local call and
\* never changed afterwards; that first call returns (0, 0), and any later
\* call with the same (lat, lon) as the first also returns (0, 0).
C15_OriginSetOnceByFirstCall ==
    /\ FirstHit = 0 => (origin_lat = None /\ origin_lon = None)
    /\ FirstHit # 0
          => /\ origin_lat = geocoded[FirstHit].lat
             /\ origin_lon = geocoded[FirstHit].lon
             /\ \A k \in 1..Len(intersections) :
                   geocoded[intersections[k].idx + 1] = geocoded[FirstHit]
                       => /\ node[intersections[k].center_node].x = 0
                          /\ node[intersections[k].center_node].y = 0

\* C15 witness: three specs were built, the third at the same (lat, lon) as
\* the first and the second elsewhere; the third center sits at (0, 0)
C15_Witness ==
    /\ Len(intersections) = 3
    /\ geocoded[intersections[3].idx + 1] = geocoded[intersections[1].idx + 1]
    /\ geocoded[intersections[2].idx + 1] # geocoded[intersections[1].idx + 1]
    /\ node[intersections[2].center_node].x # 0
    /\ node[intersections[3].center_node].x = 0
    /\ node[intersections[3].center_node].y = 0
    /\ origin_lon = geocoded[intersections[1].idx + 1].lon

\* C16: for any batch of specs (lanes >= 1, speed > 0), any pattern of
\* geocoding hits and misses, any names and any list of connection index
\* pairs, generate_network terminates without raising and returns a document
\* with the sections [Network], [Nodes], [Links], [Lanes], [Timeplans],
\* [Phases] in that order.
C16_ReturnsSixSections ==
    /\ [](pc # "raised")
    /\ <>(pc = "done")
    /\ [](pc = "done"
            => output.sections = <<"[Network]", "[Nodes]", "[Links]",
                                   "[Lanes]", "[Timeplans]", "[Phases]">>)

\* C16 witness: a finished run over a geocoding miss and a spec with an
\* unparseable name, with a self-connection and a connection naming the
\* dropped index; the six sections were written
C16_Witness ==
    /\ pc = "done"
    /\ Len(geocoded) = 2
    /\ geocoded[1] = GeoMiss
    /\ Len(intersections) = 1
    /\ node[intersections[1].center_node].street_ns = NoneStr
    /\ applied = <<<<1, 1>>, <<0, 1>>>>
    /\ Len(output.sections) = 6
\* the step carries out a merge
MergeStep == Len(merges') = Len(merges) + 1

\* the approach kept and the approach removed by the merge of the step
Kept == merges'[Len(merges')][1]

Removed == merges'[Len(merges')][2]

\* the direction of intersection i's approach for connection (i, j), by the
\* rule of C17
AxisDir1(c) ==
    LET ci == node[IntersectionAt(c[1]).center_node]
        cj == node[IntersectionAt(c[2]).center_node]
        dx == cj.x - ci.x
        dy == cj.y - ci.y
    IN  IF Abs(dx) > Abs(dy)
        THEN (IF dx > 0 THEN "EB" ELSE "WB")
        ELSE (IF dy > 0 THEN "NB" ELSE "SB")

\* C17: for a connection (i, j) of built intersections: if |dx| > |dy| the
\* merge pairs i's EB with j's WB when dx > 0 and i's WB with j's EB when
\* dx < 0; otherwise (ties included) it pairs i's NB with j's SB when dy > 0
\* and i's SB with j's NB otherwise; if either approach is missing, nothing
\* changes.
C17_MergeAxisAndDirections ==
    [][(ConnectStep /\ Built(Processed[1]) /\ Built(Processed[2]))
          => LET d1 == AxisDir1(Processed)
                 d2 == OppositeOf[d1]
                 a1 == ApproachIdIn(IntersectionAt(Processed[1]), d1)
                 a2 == ApproachIdIn(IntersectionAt(Processed[2]), d2)
             IN  IF a1 = None \/ a2 = None
                 THEN UNCHANGED <<node, all_nodes, links, merges>>
                 ELSE merges' = Append(merges, <<a1, a2>>)]_vars

\* C17 witness: the second center lies 1352 ft east and 1352 ft north of the
\* first, a tie; connection (0, 1) merged the first's NB approach with the
\* second's SB approach
C17_Witness ==
    /\ Len(intersections) = 2
    /\ node[intersections[2].center_node].x - node[intersections[1].center_node].x = 1352
    /\ node[intersections[2].center_node].y - node[intersections[1].center_node].y = 1352
    /\ applied = <<<<intersections[1].idx, intersections[2].idx>>>>
    /\ merges = <<<<intersections[1].approaches[1], intersections[2].approaches[2]>>>>

\* approach a took part in no merge so far
Fresh(a) ==
    \A m \in 1..Len(merges) : a # merges[m][1] /\ a # merges[m][2]

\* the links of the next state from node a to node b
LinksFromTo(a, b) ==
    {k \in 1..Len(links') : links'[k].from_node = a /\ links'[k].to_node = b}

\* C18: a merge of fresh facing approaches for connection (i, j), i # j,
\* keeps i's approach node and deletes j's, moves the kept node to the
\* floored midpoint of the two approach nodes, and afterwards exactly four
\* links touch the kept node: one each way with center i, of distance the
\* truncated Euclidean distance from the midpoint to center i, and one each
\* way with center j, of distance the truncated distance to center j.
C18_FreshMergeMidpointAndFourLinks ==
    [][(ConnectStep /\ MergeStep /\ Processed[1] # Processed[2]
           /\ Fresh(Kept) /\ Fresh(Removed))
          => LET int1  == IntersectionAt(Processed[1])
                 int2  == IntersectionAt(Processed[2])
                 c1    == node[int1.center_node]
                 c2    == node[int2.center_node]
                 mid_x == (node[Kept].x + node[Removed].x) \div 2
                 mid_y == (node[Kept].y + node[Removed].y) \div 2
                 d1    == ISqrt((mid_x - c1.x) * (mid_x - c1.x)
                                  + (mid_y - c1.y) * (mid_y - c1.y))
                 d2    == ISqrt((mid_x - c2.x) * (mid_x - c2.x)
                                  + (mid_y - c2.y) * (mid_y - c2.y))
             IN  /\ \E j \in 1..4 : int1.approaches[j] = Kept
                 /\ \E j \in 1..4 : int2.approaches[j] = Removed
                 /\ \E k \in 1..Len(all_nodes') : all_nodes'[k] = Kept
                 /\ \A k \in 1..Len(all_nodes') : all_nodes'[k] # Removed
                 /\ node'[Kept].x = mid_x
                 /\ node'[Kept].y = mid_y
                 /\ Cardinality({k \in 1..Len(links') :
                        links'[k].from_node = Kept \/ links'[k].to_node = Kept}) = 4
                 /\ Cardinality(LinksFromTo(Kept, c1.id)) = 1
                 /\ Cardinality(LinksFromTo(c1.id, Kept)) = 1
                 /\ Cardinality(LinksFromTo(Kept, c2.id)) = 1
                 /\ Cardinality(LinksFromTo(c2.id, Kept)) = 1
                 /\ \A k \in LinksFromTo(Kept, c1.id) \cup LinksFromTo(c1.id, Kept) :
                       links'[k].distance = d1
                 /\ \A k \in LinksFromTo(Kept, c2.id) \cup LinksFromTo(c2.id, Kept) :
                       links'[k].distance = d2]_vars

\* C18 witness: centers at (0, 0) and (1352, 1352); the kept NB approach of
\* the first moved from (0, 1500) to (676, 676), and its four links have
\* distance 956 = int(sqrt(676^2 + 676^2))
C18_Witness ==
    /\ Len(intersections) = 2
    /\ Len(merges) = 1
    /\ node[intersections[2].center_node].x = 1352
    /\ node[intersections[2].center_node].y = 1352
    /\ node[merges[1][1]].x = 676
    /\ node[merges[1][1]].y = 676
    /\ Cardinality({k \in 1..Len(links) :
           /\ links[k].from_node = merges[1][1] \/ links[k].to_node = merges[1][1]
           /\ links[k].distance = 956}) = 4

\* link k of the next state joins the kept node and center c
Joins(k, c) ==
    \/ links'[k].from_node = Kept /\ links'[k].to_node = c
    \/ links'[k].from_node = c /\ links'[k].to_node = Kept

\* C19: a merge changes nothing except the kept approach node's x and y, the
\* endpoints of links that referenced the removed node, membership of the
\* removed node in the node set, and the distance of links between the kept
\* node and the two centers; every link's lanes, speed, TWLTL flag and
\* direction label, every center's and every other approach's coordinates,
\* and the number of links stay unchanged.
C19_MergeFrame ==
    [][ConnectStep
          => /\ Len(links') = Len(links)
             /\ Len(node') = Len(node)
             /\ intersections' = intersections
             /\ \A k \in 1..Len(links) :
                   /\ links'[k].lanes = links[k].lanes
                   /\ links'[k].speed = links[k].speed
                   /\ links'[k].twltl = links[k].twltl
                   /\ links'[k].direction = links[k].direction
             /\ ~MergeStep => UNCHANGED <<node, all_nodes, links>>
             /\ MergeStep
                   => /\ \A n \in 1..Len(node) :
                            \/ node'[n] = node[n]
                            \/ /\ n = Kept
                               /\ node'[n] = [node[n] EXCEPT !.x = node'[n].x,
                                                               !.y = node'[n].y]
                      /\ all_nodes' = SelectSeq(all_nodes, LAMBDA a : a # Removed)
                      /\ \A k \in 1..Len(links) :
                            /\ links'[k].from_node =
                                  IF links[k].from_node = Removed THEN Kept
                                  ELSE links[k].from_node
                            /\ links'[k].to_node =
                                  IF links[k].to_node = Removed THEN Kept
                                  ELSE links[k].to_node
                            /\ links'[k].distance # links[k].distance
                                  => \/ Joins(k, IntersectionAt(Processed[1]).center_node)
                                     \/ Joins(k, IntersectionAt(Processed[2]).center_node)]_vars

\* C19 witness: after one merge a link of the spec with four different
\* settings has a new distance and its lanes, speed and TWLTL flag of the
\* spec, and the untouched approaches still lie 1500 ft from their centers
C19_Witness ==
    /\ Len(merges) = 1
    /\ \E k \in 1..Len(links) :
          /\ links[k].distance # standard_approach_distance
          /\ links[k].direction = "WB"
          /\ links[k].lanes = 6
          /\ links[k].speed = 70
          /\ links[k].twltl = 0
    /\ Cardinality({k \in 1..Len(links) :
                       links[k].distance = standard_approach_distance})
          = Len(links) - 4

\* the link appended at build time from a to b for an approach of an
\* intersection with settings cfg, labelled d
BuiltLink(a, b, d, cfg) ==
    [from_node |-> a, to_node |-> b, direction |-> d, lanes |-> cfg.lanes[d],
     distance |-> 1500, speed |-> cfg.speed[d], twltl |-> cfg.twltl[d]]

\* C20: for every built intersection and each direction d, the build creates
\* exactly two links for the d approach: approach -> center labelled d with
\* the spec's lanes / speed / TWLTL for d, and center -> approach labelled
\* opposite(d) with the spec's values for opposite(d); both have distance
\* 1500.
C20_TwoLinksPerApproach ==
    merges = <<>>
        => /\ Len(links) = 8 * Len(intersections)
           /\ \A k \in 1..Len(intersections) : \A d \in DirSet :
                 LET int == intersections[k]
                     a   == ApproachIdIn(int, d)
                     of_a == {n \in 1..Len(links) :
                                links[n].from_node = a \/ links[n].to_node = a}
                 IN  /\ a # None
                     /\ Cardinality(of_a) = 2
                     /\ \E n \in of_a :
                           links[n] = BuiltLink(a, int.center_node, d, int.config)
                     /\ \E n \in of_a :
                           links[n] = BuiltLink(int.center_node, a, OppositeOf[d],
                                                int.config)

\* C20 witness: a finished run without merges that built a spec with four
\* different settings; the return link to its NB approach is labelled SB and
\* has the SB values 3 lanes, 25 mph
C20_Witness ==
    /\ pc = "done"
    /\ merges = <<>>
    /\ Len(intersections) = 2
    /\ intersections[2].config = MixedConfig
    /\ \E n \in 1..Len(links) :
          links[n] = [from_node |-> intersections[2].center_node,
                      to_node |-> intersections[2].approaches[1],
                      direction |-> "SB", lanes |-> 3, distance |-> 1500,
                      speed |-> 25, twltl |-> 0]

\* the first separator of the list that occurs in the lower-cased name, 0 if
\* none does
SeparatorFound(name) ==
    First({k \in 1..Len(separators) : InLower(separators[k], name)})

\* the two parts of name around the first occurrence of sep in any letter case
SplitAnyCase(name, sep) ==
    LET k == First({j \in 1..Len(name) : Lower(name[j]) = sep})
    IN  <<SubSeq(name, 1, k - 1), SubSeq(name, k + 1, Len(name))>>

\* the text of s up to its first comma, stripped
BeforeComma(s) ==
    LET k == First({j \in 1..Len(s) : s[j] = ","})
    IN  Strip(IF k = 0 THEN s ELSE SubSeq(s, 1, k - 1))

\* the text of s after its first comma, stripped; <<>> with has = FALSE if s
\* has no comma
AfterComma(s) ==
    LET k == First({j \in 1..Len(s) : s[j] = ","})
    IN  IF k = 0 THEN [has |-> FALSE, text |-> <<>>]
        ELSE [has |-> TRUE, text |-> Strip(SubSeq(s, k + 1, Len(s)))]

\* C21: parse_intersection_name splits the name at the first separator of the
\* list (' and ', ' & ', ' at ', ' @ ') that occurs in the name compared
\* case-insensitively: for every center node whose name holds a separator
\* phrase in any letter case, street1 and street2 (stored as street_ns and
\* street_ew) are the text before and after it, each cut at its first comma,
\* and location is the second part's comma suffix if it has one, else the
\* first part's.
C21_SplitsAtSeparatorInAnyCase ==
    \A n \in 1..Len(all_nodes) :
        LET c == node[all_nodes[n]]
        IN  (c.type = 1 /\ SeparatorFound(c.name) # 0)
              => LET parts  == SplitAnyCase(c.name,
                                            separators[SeparatorFound(c.name)])
                     parsed == ParseIntersectionName(c.name)
                     suffix1 == AfterComma(parts[1])
                     suffix2 == AfterComma(parts[2])
                 IN  /\ c.street_ns = Str(BeforeComma(parts[1]))
                     /\ c.street_ew = Str(BeforeComma(parts[2]))
                     /\ parsed.street1 = c.street_ns
                     /\ parsed.street2 = c.street_ew
                     /\ parsed.location =
                          IF suffix2.has THEN Str(suffix2.text)
                          ELSE IF suffix1.has THEN Str(suffix1.text)
                          ELSE NoneStr

\* the number of links the Up ID rows of the Links section show
LinksShown ==
    Cardinality({c \in (1..Len(output.links)) \X DirSet :
                    output.links[c[1]].up_id[c[2]] # Blank})

\* C22: after any sequence of connections applied by generate_network, the
\* links departing any one node carry pairwise distinct direction labels, so
\* the per-node NB/SB/EB/WB grouping of the Links section represents every
\* link and none is overwritten by another with the same up node and label.
C22_DepartingLabelsDistinct ==
    /\ \A k, m \in 1..Len(links) :
          (k # m /\ links[k].from_node = links[m].from_node)
             => links[k].direction # links[m].direction
    /\ pc = "done" => LinksShown = Len(links)

\* C23: after any sequence of connections, every node id held in an
\* Intersection aggregate's approach list, and therefore every id written in
\* the Up Node and Dest Node rows of the Lanes section, is the id of a node
\* of the current node set (the one the Nodes section lists).
C23_ApproachIdsInNodeSet ==
    /\ \A k \in 1..Len(intersections) :
          \A j \in 1..Len(intersections[k].approaches) :
              intersections[k].approaches[j] \in NodeIds
    /\ pc = "done"
          => /\ {output.nodes[n].INTID : n \in 1..Len(output.nodes)} = NodeIds
             /\ \A n \in 1..Len(output.up_node) : \A d \in DirSet :
                   output.up_node[n].cells[d] # Blank
                      => output.up_node[n].cells[d] \in NodeIds
             /\ \A n \in 1..Len(output.dest_node) : \A d \in DirSet :
                   \A t \in {"L", "T", "R"} :
                      output.dest_node[n].cells[d][t] # Blank
                         => output.dest_node[n].cells[d][t] \in NodeIds

\* the step applies connect_intersections to the pair the step before it
\* applied it to
RepeatStep ==
    /\ ConnectStep
    /\ applied # <<>>
    /\ Processed = applied[Len(applied)]

\* C24: applying connect_intersections a second time with the same pair
\* (i, j) is idempotent: the node set, the node coordinates, the link
\* endpoints and the link distances after the second application equal those
\* after the first.
C24_RepeatedConnectionIdempotent ==
    [][RepeatStep
          => /\ all_nodes' = all_nodes
             /\ \A n \in NodeIds : node'[n].x = node[n].x /\ node'[n].y = node[n].y
             /\ Len(links') = Len(links)
             /\ \A k \in 1..Len(links) :
                   /\ links'[k].from_node = links[k].from_node
                   /\ links'[k].to_node = links[k].to_node
                   /\ links'[k].distance = links[k].distance]_vars

\* both indices of connection c are positions of the list data
InsideList(c, data) == c[1] < Len(data) /\ c[2] < Len(data)

\* C25: after any sequence of UI actions (add intersection, remove
\* intersection, connect, remove connection), every stored connection (i, j)
\* has both indices inside the current pending-intersection list and still
\* denotes the two intersections it was created for: no action takes an index
\* of a stored connection out of the list or puts another intersection at it.
C25_StoredConnectionsKeepTheirIntersections ==
    [][\A k \in 1..Len(connections') :
          LET c == connections'[k]
          IN  /\ InsideList(c, intersections_data')
              /\ ((\E m \in 1..Len(connections) : connections[m] = c)
                     /\ InsideList(c, intersections_data))
                    => /\ intersections_data'[c[1] + 1] = intersections_data[c[1] + 1]
                       /\ intersections_data'[c[2] + 1] = intersections_data[c[2] + 1]]_vars
====
